---- MODULE Spec2Model ----
(***************************************************************************)
(* Logistic regression of the propensity_score library: the Objective and  *)
(* its constructors, the cost and gradient evaluations, the optimizer      *)
(* driver logit::run, the evaluator (sigmoid, Findings::predict) and the   *)
(* accuracy score auc_score.                                               *)
(*                                                                         *)
(* Numbers are f64 in the source.  They are modelled as binary floating    *)
(* point values m * 2^e with round-to-nearest-even, gradual underflow,     *)
(* overflow to infinity and NaN, at a significand of MantBits bits (f64    *)
(* has 53) and with the exponent range of f64.  Signed zero is not kept.   *)
(***************************************************************************)
EXTENDS Integers, Sequences, FiniteSets, TLC

(***************************************************************************)
(* Bounds of the model.                                                    *)
(***************************************************************************)
\* significand width of the modelled floats
MantBits == 12
\* largest number of rows of a matrix or entries of a label vector
MaxRows == 2
\* largest number of feature columns (bias included) of an Objective
MaxCols == 2
\* largest iteration budget max_iters given to logit::run
MaxIters == 2

(***************************************************************************)
(* f64: the value format.                                                  *)
(***************************************************************************)
\* exponent of the smallest positive f64, 2^-1074
MinUlpExp == -1074
\* every finite f64 is below 2^1024
MaxBinExp == 1024

Abs(i) == IF i < 0 THEN -i ELSE i
Sgn(i) == IF i < 0 THEN -1 ELSE 1
Max(a, b) == IF a >= b THEN a ELSE b
Min(a, b) == IF a <= b THEN a ELSE b
Pow2(n) == 2 ^ n

\* the element of a singleton: {f(x) : x \in {e}} has e evaluated once,
\* however often f uses x
Once(S) == CHOOSE r \in S : TRUE

\* the number of bits of n < 2^32, by halves
BitLen4(n) == IF n >= 4 THEN (IF n >= 8 THEN 4 ELSE 3) ELSE (IF n >= 2 THEN 2 ELSE n)
BitLen8(n) == IF n >= 16 THEN 4 + BitLen4(n \div 16) ELSE BitLen4(n)
BitLen16(n) == IF n >= 256 THEN 8 + BitLen8(n \div 256) ELSE BitLen8(n)
BitLen(n) == IF n >= 65536 THEN 16 + BitLen16(n \div 65536) ELSE BitLen16(n)

NaN == [k |-> "nan", m |-> 0, e |-> 0]
Inf(s) == [k |-> "inf", m |-> s, e |-> 0]
Zero == [k |-> "fin", m |-> 0, e |-> 0]

IsNaN(a) == a.k = "nan"
IsInf(a) == a.k = "inf"
IsFinite(a) == a.k = "fin"
IsZero(a) == a.k = "fin" /\ a.m = 0

\* s * q * 2^e with q of bits <= MantBits + 1 bits, made canonical: a
\* carry out of the significand renormalised, overflow to infinity
Pack(s, q, e, bits) ==
    IF q = 0 THEN Zero
    ELSE IF bits + e > MaxBinExp THEN Inf(s)
    ELSE IF bits > MantBits THEN [k |-> "fin", m |-> s * (q \div 2), e |-> e + 1]
    ELSE [k |-> "fin", m |-> s * q, e |-> e]

\* M of bits bits, cut by shift > 0 bits to the nearest, ties to even
RoundShift(s, M, E, sticky, bits, shift) ==
    IF shift > bits + 1 THEN Zero
    ELSE Once({Pack(s, q, E + shift, BitLen(q)) :
               q \in {(M \div Pow2(shift))
                      + (IF \/ M % Pow2(shift) > Pow2(shift - 1)
                            \/ /\ M % Pow2(shift) = Pow2(shift - 1)
                               /\ (sticky \/ (M \div Pow2(shift)) % 2 = 1)
                         THEN 1 ELSE 0)}})

\* M of bits bits, exact: shifted up as far as the exponent floor allows
RoundExact(s, M, E, bits) ==
    Once({Pack(s, M * Pow2(up), E - up, bits + up) :
          up \in {Min(MantBits - bits, E - MinUlpExp)}})

RoundBits(s, M, E, sticky, bits) ==
    IF Max(bits - MantBits, MinUlpExp - E) <= 0 THEN RoundExact(s, M, E, bits)
    ELSE RoundShift(s, M, E, sticky, bits, Max(bits - MantBits, MinUlpExp - E))

\* s * M * 2^E (plus, with sticky, a positive residue below the last bit
\* of M) rounded to nearest, ties to even
Round(s, M, E, sticky) ==
    Once({IF m = 0 THEN Zero ELSE RoundBits(s, m, x, sticky, BitLen(m)) :
          m \in {M}, x \in {E}})

FromInt(i) == Round(Sgn(i), Abs(i), 0, FALSE)
One == FromInt(1)
Two == FromInt(2)
Half == Round(1, 1, -1, FALSE)

NegV(a) == IF IsNaN(a) THEN NaN ELSE [a EXCEPT !.m = -a.m]
Neg(a) == Once({NegV(x) : x \in {a}})

MulV(a, b) ==
    IF IsNaN(a) \/ IsNaN(b) THEN NaN
    ELSE IF IsInf(a) \/ IsInf(b)
         THEN IF IsZero(a) \/ IsZero(b) THEN NaN ELSE Inf(Sgn(a.m) * Sgn(b.m))
    ELSE Round(Sgn(a.m) * Sgn(b.m), Abs(a.m) * Abs(b.m), a.e + b.e, FALSE)
Mul(a, b) == Once({MulV(x, y) : x \in {a}, y \in {b}})

\* the significand of a finite non-zero value shifted up to MantBits bits
NormM(a) == Abs(a.m) * Pow2(MantBits - BitLen(Abs(a.m)))
NormE(a) == a.e - (MantBits - BitLen(Abs(a.m)))

DivV(a, b) ==
    IF IsNaN(a) \/ IsNaN(b) THEN NaN
    ELSE IF IsInf(a) THEN (IF IsInf(b) THEN NaN ELSE Inf(Sgn(a.m) * Sgn(b.m)))
    ELSE IF IsInf(b) THEN Zero
    ELSE IF IsZero(b) THEN (IF IsZero(a) THEN NaN ELSE Inf(Sgn(a.m)))
    ELSE IF IsZero(a) THEN Zero
    ELSE Once({Round(Sgn(a.m) * Sgn(b.m), n \div d,
                     NormE(a) - NormE(b) - (MantBits + 2), n % d # 0) :
               n \in {NormM(a) * Pow2(MantBits + 2)}, d \in {NormM(b)}})
Div(a, b) == Once({DivV(x, y) : x \in {a}, y \in {b}})

\* hi + lo for finite non-zero values, hi of the larger exponent
AddOrdered(hi, lo) ==
    IF hi.e - lo.e > MantBits + 2
    THEN \* lo is below a quarter of the last bit of hi
         IF Sgn(hi.m) = Sgn(lo.m)
         THEN Round(Sgn(hi.m), Abs(hi.m) * 4, hi.e - 2, TRUE)
         ELSE Round(Sgn(hi.m), Abs(hi.m) * 4 - 1, hi.e - 2, TRUE)
    ELSE Once({Round(Sgn(sum), Abs(sum), lo.e, FALSE) :
               sum \in {hi.m * Pow2(hi.e - lo.e) + lo.m}})

AddV(a, b) ==
    IF IsNaN(a) \/ IsNaN(b) THEN NaN
    ELSE IF IsInf(a) THEN (IF IsInf(b) /\ a.m # b.m THEN NaN ELSE a)
    ELSE IF IsInf(b) THEN b
    ELSE IF IsZero(a) THEN b
    ELSE IF IsZero(b) THEN a
    ELSE IF a.e >= b.e THEN AddOrdered(a, b) ELSE AddOrdered(b, a)
Add(a, b) == Once({AddV(x, y) : x \in {a}, y \in {b}})
Sub(a, b) == Once({AddV(x, NegV(y)) : x \in {a}, y \in {b}})

\* |a| < |b| for finite non-zero values
LtMagnitude(a, b) ==
    Once({IF ka # kb THEN ka < kb
          ELSE Abs(a.m) * Pow2(a.e - Min(a.e, b.e)) < Abs(b.m) * Pow2(b.e - Min(a.e, b.e)) :
          ka \in {a.e + BitLen(Abs(a.m))}, kb \in {b.e + BitLen(Abs(b.m))}})

\* a < b, as f64 compares: false when either is NaN
LtV(a, b) ==
    IF IsNaN(a) \/ IsNaN(b) THEN FALSE
    ELSE IF IsInf(a) THEN a.m < 0 /\ ~(IsInf(b) /\ b.m < 0)
    ELSE IF IsInf(b) THEN b.m > 0
    ELSE IF a.m <= 0 /\ b.m >= 0 THEN a.m # 0 \/ b.m # 0
    ELSE IF a.m >= 0 /\ b.m <= 0 THEN FALSE
    ELSE IF a.m > 0 THEN LtMagnitude(a, b) ELSE LtMagnitude(b, a)
Lt(a, b) == Once({LtV(x, y) : x \in {a}, y \in {b}})
Gt(a, b) == Once({LtV(y, x) : x \in {a}, y \in {b}})
\* a == b, as f64 compares: values are canonical, and NaN equals nothing
Eq(a, b) == Once({~IsNaN(x) /\ ~IsNaN(y) /\ x = y : x \in {a}, y \in {b}})
Le(a, b) == Once({LtV(x, y) \/ (~IsNaN(x) /\ ~IsNaN(y) /\ x = y) : x \in {a}, y \in {b}})

(***************************************************************************)
(* f64::exp and f64::ln.  exp takes the binary expansion of its argument   *)
(* (a multiple of 1/4 below 1024 in magnitude) and multiplies the          *)
(* constants e^(2^i), each correct to 24 bits; ln is the atanh series on   *)
(* the significand reduced to [3/4, 3/2].                                  *)
(***************************************************************************)
ExpPos == <<
    <<10771186, -23>>, <<13830476, -23>>, <<11401300, -22>>, <<15495974, -21>>,
    <<14312577, -18>>, <<12210004, -12>>, <<8886111, 0>>, <<9413118, 23>>,
    <<10562753, 69>>, <<13300390, 161>>, <<10544084, 346>>, <<13253416, 715>> >>
ExpNeg == <<
    <<13066109, -24>>, <<10175896, -24>>, <<12343986, -25>>, <<9082197, -26>>,
    <<9833134, -29>>, <<11526408, -35>>, <<15837918, -47>>, <<14951208, -70>>,
    <<13323940, -116>>, <<10581456, -208>>, <<13347531, -393>>, <<10618959, -762>> >>
Ln2 == Round(1, 11629080, -24, FALSE)

\* e^(+-2^(i-3)) for i in 1..12, rounded to the significand
ExpPosF == [i \in 1..12 |-> Round(1, ExpPos[i][1], ExpPos[i][2], FALSE)]
ExpNegF == [i \in 1..12 |-> Round(1, ExpNeg[i][1], ExpNeg[i][2], FALSE)]
ExpConst(neg, i) == IF neg THEN ExpNegF[i] ELSE ExpPosF[i]

RECURSIVE ExpProd(_, _, _, _)
ExpProd(neg, n, i, acc) ==
    IF n = 0 THEN acc
    ELSE Once({ExpProd(neg, n \div 2, i + 1, a) :
               a \in {IF n % 2 = 1 THEN MulV(acc, ExpConst(neg, i)) ELSE acc}})

ExpV(v) ==
    IF IsNaN(v) THEN NaN
    ELSE IF IsInf(v) THEN (IF v.m > 0 THEN Inf(1) ELSE Zero)
    ELSE IF IsZero(v) THEN One
    ELSE IF v.e + BitLen(Abs(v.m)) > 10 THEN (IF v.m > 0 THEN Inf(1) ELSE Zero)
    ELSE Once({ExpProd(v.m < 0, quarters, 1, One) :
               quarters \in {IF v.e + 2 >= 0 THEN Abs(v.m) * Pow2(v.e + 2)
                             ELSE Abs(v.m) \div Pow2(-(v.e + 2))}})
Exp(v) == Once({ExpV(x) : x \in {v}})

Third == Div(One, FromInt(3))
Fifth == Div(One, FromInt(5))
Seventh == Div(One, FromInt(7))

\* 2 * atanh(t) = ln((1 + t) / (1 - t)), to the term t^7 / 7
LnSeries(t) ==
    Once({Mul(Two, Mul(t, Add(One, Mul(t2, Add(Third, Mul(t2, Add(Fifth, Mul(t2, Seventh)))))))) :
          t2 \in {MulV(t, t)}})

\* ln(f * 2^kexp) for f in [3/4, 3/2]
LnReduced(f, kexp) ==
    Add(Mul(FromInt(kexp), Ln2), Once({LnSeries(t) : t \in {Div(Sub(f, One), Add(f, One))}}))

LnV(v) ==
    IF IsNaN(v) THEN NaN
    ELSE IF IsZero(v) THEN Inf(-1)
    ELSE IF v.m < 0 THEN NaN
    ELSE IF IsInf(v) THEN Inf(1)
    ELSE Once({IF 2 * m > 3 * Pow2(MantBits - 1)
               THEN LnReduced(Round(1, m, -MantBits, FALSE), NormE(v) + MantBits)
               ELSE LnReduced(Round(1, m, -(MantBits - 1), FALSE), NormE(v) + MantBits - 1) :
               m \in {NormM(v)}})
Ln(v) == Once({LnV(x) : x \in {v}})

(***************************************************************************)
(* Vectors (DVector<f64>) are sequences of floats; a matrix (DMatrix<f64>) *)
(* is its shape and its rows.                                              *)
(***************************************************************************)
Range(s) == {s[i] : i \in 1..Len(s)}
VecsOf(S, n) == [1..n -> S]
VecsUpTo(S, n) == UNION {VecsOf(S, l) : l \in 0..n}
Matrix(r, c, rs) == [nrows |-> r, ncols |-> c, rows |-> rs]
MatricesOf(S, r, c) == {Matrix(r, c, rs) : rs \in VecsOf(VecsOf(S, c), r)}
Zeros(n) == [i \in 1..n |-> Zero]

\* the sum of s[1..n], folded from the left as Iterator::sum does
RECURSIVE SumTo(_, _)
SumTo(s, n) == IF n = 0 THEN Zero ELSE Add(SumTo(s, n - 1), s[n])
SumF(s) == Once({SumTo(t, Len(t)) : t \in {s}})

\* one entry of the product &x * ws
Dot(row, ws) == SumF([j \in 1..Len(row) |-> Mul(row[j], ws[j])])
MatVec(x, ws) == [i \in 1..x.nrows |-> Dot(x.rows[i], ws)]
Column(m, j) == [i \in 1..m.nrows |-> m.rows[i][j]]
\* DMatrix::columns(first, n)
Columns(m, first, n) ==
    Matrix(m.nrows, n, [i \in 1..m.nrows |-> [j \in 1..n |-> m.rows[i][first + j]]])
\* DMatrix::from_row_slice(rows, cols, data), its length assertion aside
FromRowSlice(rows, cols, data) ==
    Matrix(rows, cols, [i \in 1..rows |-> [j \in 1..cols |-> data[(i - 1) * cols + j]]])

\* DVector::min and DVector::max of s[1..n], n > 0
RECURSIVE MinTo(_, _)
MinTo(s, n) ==
    IF n = 1 THEN s[1]
    ELSE Once({IF LtV(s[n], r) THEN s[n] ELSE r : r \in {MinTo(s, n - 1)}})
MinF(s) == MinTo(s, Len(s))
RECURSIVE MaxTo(_, _)
MaxTo(s, n) ==
    IF n = 1 THEN s[1]
    ELSE Once({IF LtV(r, s[n]) THEN s[n] ELSE r : r \in {MaxTo(s, n - 1)}})
MaxF(s) == MaxTo(s, Len(s))

(***************************************************************************)
(* What a call gives its caller: a value, an error value, or a panic that  *)
(* aborts the process.                                                     *)
(***************************************************************************)
Ok(v) == [kind |-> "Ok", val |-> v]
Err(msg) == [kind |-> "Err", val |-> msg]
Panic(msg) == [kind |-> "Panic", val |-> msg]

(***************************************************************************)
(* models.rs: the logistic link.                                           *)
(***************************************************************************)
Forty == FromInt(40)

\* the link without its clamps
sigmoid_unclamped(v) == Once({Div(One, Add(One, Exp(Neg(z)))) : z \in {v}})

sigmoid(v) ==
    Once({IF Lt(z, Neg(Forty)) THEN Zero
          ELSE IF Gt(z, Forty) THEN One
          ELSE Div(One, Add(One, Exp(Neg(z)))) : z \in {v}})

(***************************************************************************)
(* models.rs: the Objective and its constructors.                          *)
(***************************************************************************)
Objective(x, y) == [x |-> x, y |-> y]

feature_count(obj) == obj.x.ncols

\* Objective::new
new(x, y) == Ok(Objective(x, y))

\* impl From<DMatrix<f64>> for Objective
from(matrix) ==
    IF matrix.ncols = 0 THEN Panic("Matrix index out of bounds")
    ELSE Once({IF Eq(MinF(y), Zero) /\ Eq(MaxF(y), One)
               THEN Ok(Objective(Columns(matrix, 1, matrix.ncols - 1), y))
               ELSE Panic("assertion failed: y.min() == 0.0 && y.max() == 1.0") :
               y \in {Column(matrix, 1)}})

\* Objective::from_matrix
from_matrix(matrix) == from(matrix)

\* from_vec with the row slice cut to rows * cols entries, its length unchecked
from_vec_truncating(data, rows) ==
    IF rows = 0 THEN Panic("attempt to divide by zero")
    ELSE from(FromRowSlice(rows, Len(data) \div rows, data))

\* Objective::from_vec
from_vec(data, rows) ==
    IF rows = 0 THEN Panic("attempt to divide by zero")
    ELSE Once({IF Len(data) # rows * cols
               THEN Panic("Matrix init. error: the slice did not contain the right number of elements")
               ELSE from(FromRowSlice(rows, cols, data)) :
               cols \in {Len(data) \div rows}})

\* Objective::from_vecs
from_vecs(x, y, rows) ==
    IF rows = 0 THEN Panic("attempt to divide by zero")
    ELSE Once({IF Len(x) # rows * x_cols
               THEN Panic("Matrix init. error: the slice did not contain the right number of elements")
               ELSE new(FromRowSlice(rows, x_cols, x), y) :
               x_cols \in {Len(x) \div rows}})

(***************************************************************************)
(* logit.rs: cost and gradient of the Objective at a parameter vector.     *)
(***************************************************************************)
\* one term of the log-likelihood: yi * ln(y_hat) + (1 - yi) * ln(1 - y_hat)
LogLik(y_hat, yi) ==
    Once({Add(Mul(t, Ln(h)), Mul(Sub(One, t), Ln(Sub(One, h)))) : h \in {y_hat}, t \in {yi}})

\* impl CostFunction for &Objective
cost(obj, param) ==
    IF obj.x.nrows = 0 THEN Panic("Matrix index out of bounds")
    ELSE IF Len(obj.x.rows[1]) # Len(param)
         THEN Panic("x feature count not matching guess param len")
    ELSE IF feature_count(obj) # Len(param)
         THEN Panic("feature count not matching guess size")
    ELSE Once({Ok(Neg(SumF([i \in 1..Min(Len(raw), Len(obj.y)) |->
                                LogLik(sigmoid(raw[i]), obj.y[i])]))) :
               raw \in {MatVec(obj.x, param)}})

\* the fold of gradient over the rows: acc_j += x_j * dyi
RECURSIVE GradFold(_, _, _, _)
GradFold(x, dyi_x_n, n, i) ==
    IF i = 0 THEN Zeros(n)
    ELSE Once({[j \in 1..Min(n, Len(x.rows[i])) |-> Add(acc[j], Mul(x.rows[i][j], dyi_x_n[i]))] :
               acc \in {GradFold(x, dyi_x_n, n, i - 1)}})

\* impl Gradient for &Objective
gradient(obj, param) ==
    IF obj.x.ncols # Len(param) THEN Panic("Matrix multiplication dimensions mismatch")
    ELSE IF obj.x.nrows # Len(obj.y) THEN Panic("Matrix addition/subtraction dimensions mismatch")
    ELSE Once({Ok(GradFold(obj.x, dyi_x_n, feature_count(obj), obj.x.nrows)) :
               dyi_x_n \in {[i \in 1..obj.x.nrows |->
                                Sub(sigmoid(Dot(obj.x.rows[i], param)), obj.y[i])]}})

(***************************************************************************)
(* auc_score.rs: the accuracy score.                                       *)
(***************************************************************************)
\* one step of the fold over y_true: the counts, the warning, or the panic
\* of a label that is neither 0, 1 nor above 1
CountLabel(acc, yi) ==
    IF acc.panic THEN acc
    ELSE IF Eq(yi, Zero) THEN [acc EXCEPT !.neg = Add(acc.neg, One)]
    ELSE IF Eq(yi, One) THEN [acc EXCEPT !.pos = Add(acc.pos, One)]
    ELSE IF Gt(yi, One) THEN [acc EXCEPT !.pos = Add(acc.pos, One), !.warn = TRUE]
    ELSE [acc EXCEPT !.panic = TRUE]

RECURSIVE CountLabels(_, _)
CountLabels(y_true, i) ==
    IF i = 0 THEN [neg |-> Zero, pos |-> Zero, warn |-> FALSE, panic |-> FALSE]
    ELSE Once({CountLabel(acc, y_true[i]) : acc \in {CountLabels(y_true, i - 1)}})

\* the pairs of zip(y_true, y_hat) that are equal
Matches(y_true, y_hat) ==
    Cardinality({i \in 1..Min(Len(y_true), Len(y_hat)) : Eq(y_true[i], y_hat[i])})

\* the score with the ranking formula the source keeps in a comment
auc_score_rank(y_true, y_hat) ==
    Once({IF counts.panic
          THEN [kind |-> "Panic", val |-> NaN, warn |-> FALSE]
          ELSE [kind |-> "Ok",
                val |-> Div(Sub(FromInt(Matches(y_true, y_hat)),
                                Div(Mul(counts.pos, Add(counts.pos, One)), Two)),
                            Mul(counts.pos, counts.neg)),
                warn |-> counts.warn] :
          counts \in {CountLabels(y_true, Len(y_true))}})

auc_score(y_true, y_hat) ==
    Once({IF counts.panic
          THEN [kind |-> "Panic", val |-> NaN, warn |-> FALSE]
          ELSE [kind |-> "Ok",
                val |-> Div(FromInt(Matches(y_true, y_hat)), Add(counts.pos, counts.neg)),
                warn |-> counts.warn] :
          counts \in {CountLabels(y_true, Len(y_true))}})

(***************************************************************************)
(* models.rs: Findings and the predictions.                                *)
(***************************************************************************)
Findings(all_betas, coefficients, intercept) ==
    [all_betas |-> all_betas, coefficients |-> coefficients, intercept |-> intercept]

\* one entry of the prediction from its score
Predicted(v, binary) ==
    IF binary THEN (IF Gt(sigmoid(v), Half) THEN One ELSE Zero)
    ELSE Once({Div(ev, Add(ev, One)) : ev \in {Exp(v)}})

\* predict with the binary threshold taken as link >= 0.5
predict_threshold_ge(obj, all_betas, binary) ==
    [i \in 1..obj.x.nrows |->
        Once({IF binary THEN (IF ~Lt(sigmoid(v), Half) THEN One ELSE Zero)
              ELSE Predicted(v, binary) : v \in {Dot(obj.x.rows[i], all_betas)}})]

\* Findings::predict, for all_betas as long as x is wide
predict(obj, all_betas, binary) ==
    [i \in 1..obj.x.nrows |->
        Once({Predicted(v, binary) : v \in {Dot(obj.x.rows[i], all_betas)}})]

\* Findings::report: the numbers of the report, or the failure of auc_score
report(obj, fnd) ==
    Once({IF score.kind # "Ok" THEN score
          ELSE [kind |-> "Ok",
                val |-> [features |-> feature_count(obj), records |-> obj.x.nrows,
                         coefficients |-> fnd.coefficients, intercept |-> fnd.intercept,
                         auc |-> score.val],
                warn |-> score.warn] :
          score \in {auc_score(obj.y, predict(obj, fnd.all_betas, TRUE))}})

(***************************************************************************)
(* matrix_csv.rs: the loader.  A file is its records, a record its fields, *)
(* a field its text.  The csv reader (not flexible, as built here) fails   *)
(* on a record whose field count differs from the first record's, and      *)
(* keeps the first record as the headers whether or not it is data.        *)
(***************************************************************************)
ParseF64(text) ==
    IF text = "0" THEN Ok(Zero)
    ELSE IF text = "1" THEN Ok(One)
    ELSE Err("invalid float literal")

\* reader.headers()
Headers(file) == IF Len(file) = 0 THEN <<>> ELSE file[1]

\* reader.byte_records(): the records it yields, each an Ok or an Err
ByteRecords(file, with_headers) ==
    [i \in 1..Max(Len(file) - (IF with_headers THEN 1 ELSE 0), 0) |->
        IF Len(file[i + (IF with_headers THEN 1 ELSE 0)]) # Len(file[1])
        THEN Err("UnequalLengths")
        ELSE Ok(file[i + (IF with_headers THEN 1 ELSE 0)])]

\* one record staged: its fields parsed, and the bias 1.0 after them
StageRecord(record) ==
    IF \E j \in 1..Len(record) : ParseF64(record[j]).kind = "Err" THEN Err("parse")
    ELSE Ok([j \in 1..Len(record) |-> ParseF64(record[j]).val] \o <<One>>)

RECURSIVE Flatten(_)
Flatten(ss) == IF Len(ss) = 0 THEN <<>> ELSE ss[1] \o Flatten(Tail(ss))

\* matrix_csv::from_csv
from_csv(file, with_headers) ==
    LET records == ByteRecords(file, with_headers)
        staged == [i \in 1..Len(records) |->
                      IF records[i].kind = "Err" THEN records[i]
                      ELSE StageRecord(records[i].val)]
    IN  IF \E i \in 1..Len(staged) : staged[i].kind = "Err" THEN Err("load")
        ELSE LET staged_records == Flatten([i \in 1..Len(staged) |-> staged[i].val])
                 feature_count_csv == Len(Headers(file)) + 1
                 num_records == Len(staged_records) \div feature_count_csv
             IN  Ok(<<staged_records, num_records>>)

(***************************************************************************)
(* logit.rs: run.  The solver is argmin's Executor over LBFGS with a       *)
(* backtracking line search under the Armijo condition.  Its state is the  *)
(* Executor's IterState.  The search direction and the step length are     *)
(* abstracted to the outcome of the line search: a point of the grid that  *)
(* the Armijo condition accepts (its cost is below the current cost), the  *)
(* current point again (the step length has shrunk to nothing), or an      *)
(* error, which the Executor hands to run.                                 *)
(***************************************************************************)
\* f64::EPSILON, the solver's tol_cost; its tol_grad is the square root
Epsilon == Round(1, 1, -52, FALSE)

AbsF(a) == IF IsNaN(a) THEN NaN ELSE [a EXCEPT !.m = Abs(a.m)]
NormSquared(g) == SumF([j \in 1..Len(g) |-> Mul(g[j], g[j])])

Idle ==
    [pc |-> "idle", iter |-> 0, max_iters |-> 0, param |-> <<>>, cost |-> Inf(1),
     prev_cost |-> Inf(1), grad |-> <<>>, best_param |-> <<>>, best_cost |-> Inf(1),
     failed |-> <<>>]

\* IterState::update: the best point so far
Update(st) ==
    Once({IF Lt(t.cost, t.best_cost)
             \/ (IsInf(t.cost) /\ IsInf(t.best_cost) /\ t.cost.m = t.best_cost.m)
          THEN [t EXCEPT !.best_param = <<t.param>>, !.best_cost = t.cost]
          ELSE t : t \in {st}})

\* the Executor's stopping tests, taken before each iteration
Terminated(st) ==
    \/ st.iter >= st.max_iters
    \/ Lt(NormSquared(st.grad), Epsilon)
    \/ Lt(AbsF(Sub(st.prev_cost, st.cost)), Epsilon)

\* the Findings of run from the solver's best_param, or the panic of the split
Split(p, best_param) ==
    IF Len(best_param) = 0 THEN Panic("called Option::unwrap() on a None value")
    ELSE IF p > Len(best_param[1]) THEN Panic("Matrix slicing out of bounds")
    ELSE IF p - 1 < 0 THEN Panic("attempt to subtract with overflow")
    ELSE Ok(Findings(SubSeq(best_param[1], 1, p), SubSeq(best_param[1], 1, p - 1),
                     best_param[1][p]))

(***************************************************************************)
(* The inputs of the model: the values the callers pass.                   *)
(***************************************************************************)
F(S) == {FromInt(i) : i \in S}
\* feature values and label values of the datasets
XVals == F({0, 1})
LabelVals == F({-1, 0, 1, 2})
\* entries of the parameter vectors given to cost and gradient
ParamVals == F({-1, 1})
\* entries of the points the line search may reach
StepVals == F({-1, 0, 1})
\* texts of the fields of a csv file
FieldTexts == {"1", "x"}
\* the scores given to the link on their own: the integers to LinkRange,
\* the quarters about 0 and about the clamps, and the extremes of exp
LinkRange == 42
LinkInputs ==
    F(-LinkRange..LinkRange)
    \cup {Round(s, q, -2, FALSE) : s \in {-1, 1}, q \in (1..7) \cup (157..163)}
    \cup F({-2000, -1023, -746, -745, -710, -709, 709, 710, 745, 1023, 2000})
\* entries of the fitted parameters of a Findings built by its fields
BetaVals == F({-710, -41, -40, -1, 0, 1, 40, 41, 710})
\* largest shape of the Objective of such a Findings
PredRows == 2
PredCols == 1
\* longest label vector given to auc_score on its own
MaxLabels == 3

VARIABLES
    objective,  \* <<>> or <<the Objective the caller holds>>
    findings,   \* <<>> or <<the Findings the caller holds>>, of that Objective
    exec,       \* the solver's state, while run is under way and after it
    call,       \* the latest call: its name, its arguments, its outcome
    prev        \* the call before it (kept for the link alone)

vars == <<objective, findings, exec, call, prev>>

NoCall == [op |-> "none", args |-> <<>>, out |-> Ok(Zero)]
Call(op, args, out) == [op |-> op, args |-> args, out |-> out]

\* the process runs: no call has panicked, and no run is under way
Alive == call.out.kind # "Panic"
Ready == Alive /\ exec.pc = "idle"

Init ==
    /\ objective = <<>>
    /\ findings = <<>>
    /\ exec = Idle
    /\ call = NoCall
    /\ prev = NoCall

\* a constructor's outcome kept: the Objective on Ok
Built(op, args, out) ==
    \E o \in {out} :
        /\ call' = Call(op, args, o)
        /\ objective' = IF o.kind = "Ok" THEN <<o.val>> ELSE objective
        /\ UNCHANGED <<findings, exec, prev>>

New ==
    /\ Ready /\ objective = <<>> /\ call.op = "none"
    /\ \E r \in 1..MaxRows, c \in 0..MaxCols :
         \E x \in MatricesOf(XVals, r, c), y \in VecsOf(LabelVals, r) :
            Built("new", <<x, y>>, new(x, y))

FromMatrix ==
    /\ Ready /\ objective = <<>> /\ call.op = "none"
    /\ \E r \in 1..MaxRows, c \in 0..MaxCols :
         \E x \in MatricesOf(XVals, r, c), y \in VecsOf(LabelVals, r) :
            \E matrix \in {Matrix(r, c + 1, [i \in 1..r |-> <<y[i]>> \o x.rows[i]])} :
                Built("from_matrix", <<matrix>>, from_matrix(matrix))

FromVec ==
    /\ Ready /\ objective = <<>> /\ call.op = "none"
    /\ \E rows \in 0..MaxRows, data \in VecsUpTo(XVals, MaxRows * MaxCols) :
            Built("from_vec", <<data, rows>>, from_vec(data, rows))

FromVecs ==
    /\ Ready /\ objective = <<>> /\ call.op = "none"
    /\ \E rows \in 0..MaxRows, x \in VecsUpTo(XVals, MaxRows * MaxCols) :
         \E y \in VecsOf(XVals, rows) :
            Built("from_vecs", <<x, y, rows>>, from_vecs(x, y, rows))

\* the load comes first, as in main
FromCsv ==
    /\ Ready /\ objective = <<>> /\ call.op = "none"
    /\ \E with_headers \in BOOLEAN :
         \E file \in VecsUpTo(VecsUpTo(FieldTexts, MaxCols), MaxRows + 1) :
            /\ call' = Call("from_csv", <<file, with_headers>>, from_csv(file, with_headers))
            /\ UNCHANGED <<objective, findings, exec, prev>>

\* the Objective is immutable and both evaluations are pure: a caller's
\* direct evaluation is taken once, before the run
Direct == Ready /\ objective # <<>> /\ exec = Idle /\ call.op \notin {"cost", "gradient"}

Cost ==
    /\ Direct
    /\ \E param \in VecsUpTo(ParamVals, MaxCols + 1) :
            call' = Call("cost", <<param>>, cost(objective[1], param))
    /\ UNCHANGED <<objective, findings, exec, prev>>

Gradient ==
    /\ Direct
    /\ \E param \in VecsUpTo(ParamVals, MaxCols + 1) :
            call' = Call("gradient", <<param>>, gradient(objective[1], param))
    /\ UNCHANGED <<objective, findings, exec, prev>>

\* the Executor's first state: init_param, its cost and its gradient
Started(max_iters, init_param, c0, g0) ==
    IF c0.kind = "Panic" \/ g0.kind = "Panic"
    THEN /\ call' = Call("run", <<max_iters>>, IF c0.kind = "Panic" THEN c0 ELSE g0)
         /\ exec' = [exec EXCEPT !.max_iters = max_iters]
    ELSE /\ call' = Call("run", <<max_iters>>, [kind |-> "Running", val |-> Zero])
         /\ exec' = Update([Idle EXCEPT !.pc = "iterate", !.max_iters = max_iters,
                                        !.param = init_param, !.cost = c0.val,
                                        !.grad = g0.val])

\* run, to the solver's first state
RunStart ==
    /\ Ready /\ objective # <<>> /\ exec = Idle
    /\ \E max_iters \in 0..MaxIters :
         \E init_param \in {Zeros(feature_count(objective[1]))} :
            \E c0 \in {cost(objective[1], init_param)},
               g0 \in {gradient(objective[1], init_param)} :
                Started(max_iters, init_param, c0, g0)
    /\ UNCHANGED <<objective, findings, prev>>

\* one iteration of the solver done: the state at the line search's point
Moved(w, c, g) ==
    Update([exec EXCEPT !.param = w, !.prev_cost = exec.cost, !.cost = c, !.grad = g,
                        !.iter = exec.iter + 1])

\* an iteration whose line search finds a point of lower cost
RunIterate ==
    /\ Alive /\ exec.pc = "iterate" /\ ~Terminated(exec)
    /\ \E w \in VecsOf(StepVals, Len(exec.param)) :
         \E c \in {cost(objective[1], w).val} :
            /\ Lt(c, exec.cost)
            /\ \E g \in {gradient(objective[1], w).val} : exec' = Moved(w, c, g)
    /\ UNCHANGED <<objective, findings, call, prev>>

\* an iteration whose line search finds no point of lower cost and gives
\* the current point back
RunStall ==
    /\ Alive /\ exec.pc = "iterate" /\ ~Terminated(exec)
    /\ exec' = [Moved(exec.param, exec.cost, exec.grad)
                    EXCEPT !.failed = exec.failed \o <<exec.iter>>]
    /\ UNCHANGED <<objective, findings, call, prev>>

\* an iteration whose line search ends in an error: the Executor returns
\* it and run passes it on
RunFail ==
    /\ Alive /\ exec.pc = "iterate" /\ ~Terminated(exec)
    /\ call' = Call("run", call.args, Err("Result failed"))
    /\ exec' = [exec EXCEPT !.pc = "idle", !.failed = exec.failed \o <<exec.iter>>]
    /\ UNCHANGED <<objective, findings, prev>>

\* the solver has stopped: run splits best_param into the Findings
RunFinish ==
    /\ Alive /\ exec.pc = "iterate" /\ Terminated(exec)
    /\ \E out \in {Split(feature_count(objective[1]), exec.best_param)} :
        /\ call' = Call("run", call.args, out)
        /\ findings' = IF out.kind = "Ok" THEN <<out.val>> ELSE findings
    /\ exec' = [exec EXCEPT !.pc = "idle"]
    /\ UNCHANGED <<objective, prev>>

Predict ==
    /\ Ready /\ findings # <<>>
    /\ \E binary \in BOOLEAN :
            call' = Call("predict", <<binary>>,
                         Ok(predict(objective[1], findings[1].all_betas, binary)))
    /\ UNCHANGED <<objective, findings, exec, prev>>

Report ==
    /\ Ready /\ findings # <<>>
    /\ call' = Call("report", <<>>, report(objective[1], findings[1]))
    /\ UNCHANGED <<objective, findings, exec, prev>>

Next ==
    \/ New \/ FromMatrix \/ FromVec \/ FromVecs \/ FromCsv
    \/ Cost \/ Gradient
    \/ RunStart \/ RunIterate \/ RunStall \/ RunFail \/ RunFinish
    \/ Predict \/ Report

Spec == Init /\ [][Next]_vars

(***************************************************************************)
(* The link on its own: sigmoid applied to one score after another.        *)
(***************************************************************************)
\* two applications are kept, the latest and the one before
Sigmoid ==
    /\ prev.op = "none"
    /\ \E z \in LinkInputs : call' = Call("sigmoid", <<z>>, Ok(sigmoid(z)))
    /\ prev' = call
    /\ UNCHANGED <<objective, findings, exec>>

SpecLink == Init /\ [][Sigmoid]_vars

(***************************************************************************)
(* The evaluator on its own: predict on a Findings built by its fields     *)
(* (they are public) for an Objective built by Objective::new.             *)
(***************************************************************************)
InitPredict ==
    /\ \E r \in 1..PredRows, c \in 0..PredCols :
         \E x \in MatricesOf(XVals, r, c), all_betas \in VecsOf(BetaVals, c) :
            /\ objective = <<Objective(x, [i \in 1..r |-> Zero])>>
            /\ findings = <<Findings(all_betas, SubSeq(all_betas, 1, c - 1),
                                     IF c = 0 THEN Zero ELSE all_betas[c])>>
    /\ exec = Idle
    /\ call = NoCall
    /\ prev = NoCall

SpecPredict == InitPredict /\ [][Predict]_vars

(***************************************************************************)
(* The score on its own: auc_score on label and prediction vectors.        *)
(***************************************************************************)
AucScore ==
    /\ call.op = "none"
    /\ \E y_true \in VecsUpTo(LabelVals, MaxLabels), y_hat \in VecsUpTo({Zero, One}, MaxLabels) :
            call' = Call("auc_score", <<y_true, y_hat>>, auc_score(y_true, y_hat))
    /\ UNCHANGED <<objective, findings, exec, prev>>

SpecAuc == Init /\ [][AucScore]_vars

(***************************************************************************)
(* The constructors from flat data and the loader on their own.            *)
(***************************************************************************)
Load == FromVec \/ FromVecs \/ FromCsv

SpecLoad == Init /\ [][Load]_vars

(***************************************************************************)
(* The properties.                                                         *)
(***************************************************************************)
\* the call that has returned, by its name
Returned(op) == call.op = op /\ call.out.kind # "Running"
\* the score of row i under the Findings the caller holds
RowScore(i) == Dot(objective[1].x.rows[i], findings[1].all_betas)
Unit(v) == Le(Zero, v) /\ Le(v, One)

\* C1: cost and gradient at a parameter vector whose length differs from
\* feature_count() return a DimensionError value to the caller; neither
\* panics.
C1_WrongLengthIsDimensionError ==
    (call.op \in {"cost", "gradient"} /\ Len(call.args[1]) # feature_count(objective[1]))
        => call.out.kind = "Err"

\* cost has panicked on a parameter vector of the wrong length
C1_WrongLengthPanics ==
    /\ call.op = "cost"
    /\ Len(call.args[1]) # feature_count(objective[1])
    /\ call.out.kind = "Panic"

\* what C2 says of the link away from its lower clamp: for every finite
\* score the value is in [0,1], it is 0.5 at 0, exactly 1 at 40 and above,
\* and of two scores the larger has no smaller value
LinkBoundedMonotone ==
    call.op = "sigmoid" =>
        /\ Unit(call.out.val)
        /\ call.args[1] = Zero => call.out.val = Half
        /\ Le(Forty, call.args[1]) => call.out.val = One
        /\ (prev.op = "sigmoid" /\ Le(prev.args[1], call.args[1]))
                => Le(prev.out.val, call.out.val)

\* C2, as the code has it: sigmoid is monotonic non-decreasing and in [0,1]
\* for every finite z, sigmoid(0) == 0.5, sigmoid(z) == 1 exactly for every
\* z >= 40, and sigmoid(z) == 0 exactly for every z < -40 (at z == -40 it
\* is 1/(1+exp(40)), which is above 0).
C2_LinkClampsBelowMinus40 ==
    /\ LinkBoundedMonotone
    /\ call.op = "sigmoid" =>
        /\ Lt(call.args[1], Neg(Forty)) => call.out.val = Zero
        /\ call.args[1] = Neg(Forty) => Gt(call.out.val, Zero)

\* C2, as stated: the same with sigmoid(z) == 0 exactly for every z <= -40,
\* z == -40 included
C2_LinkClampsAtMinus40 ==
    /\ LinkBoundedMonotone
    /\ (call.op = "sigmoid" /\ Le(call.args[1], Neg(Forty))) => call.out.val = Zero

\* the link applied at -41, where it is 0, and then at -40, where it is not
C2_AtMinus40 ==
    /\ prev.op = "sigmoid" /\ prev.args[1] = FromInt(-41) /\ prev.out.val = Zero
    /\ call.op = "sigmoid" /\ call.args[1] = Neg(Forty) /\ call.out.val # Zero

\* C3: predict(false) gives for every row exactly the clamped link of the
\* row score, so every entry is a probability in [0,1] for every finite
\* score.
C3_ProbabilityIsClampedLink ==
    (call.op = "predict" /\ call.args[1] = FALSE) =>
        \A i \in 1..objective[1].x.nrows :
            IsFinite(RowScore(i)) =>
                /\ call.out.val[i] = sigmoid(RowScore(i))
                /\ Unit(call.out.val[i])

\* predict(false) has given NaN for a finite score
C3_ProbabilityIsNaN ==
    /\ call.op = "predict" /\ call.args[1] = FALSE
    /\ \E i \in 1..objective[1].x.nrows : IsFinite(RowScore(i)) /\ IsNaN(call.out.val[i])

\* C4: predict(true) gives a vector as long as x has rows, every entry
\* exactly 0.0 or 1.0: 1.0 when the link of the row score exceeds 0.5 and
\* 0.0 otherwise, so a score of exactly 0 gives 0.0.
C4_BinaryPrediction ==
    (call.op = "predict" /\ call.args[1] = TRUE) =>
        /\ Len(call.out.val) = objective[1].x.nrows
        /\ \A i \in 1..objective[1].x.nrows :
            /\ call.out.val[i] \in {Zero, One}
            /\ call.out.val[i] = One <=> Gt(sigmoid(RowScore(i)), Half)
            /\ RowScore(i) = Zero => call.out.val[i] = Zero

\* predict(true) over a row of score 0 and a row of positive score
C4_ZeroAndPositiveScore ==
    /\ call.op = "predict" /\ call.args[1] = TRUE
    /\ \E i, j \in 1..objective[1].x.nrows :
        /\ RowScore(i) = Zero /\ call.out.val[i] = Zero
        /\ Gt(RowScore(j), Zero) /\ call.out.val[j] = One

\* the arguments of the latest auc_score: equal-length, non-empty, labels 0 or 1
BinaryLabelled ==
    /\ call.op = "auc_score"
    /\ Len(call.args[1]) = Len(call.args[2]) /\ Len(call.args[1]) > 0
    /\ Range(call.args[1]) \subseteq {Zero, One}
Agreeing == {i \in 1..Len(call.args[1]) : call.args[1][i] = call.args[2][i]}

\* C5: for equal-length non-empty y_true (labels 0 or 1) and y_hat,
\* auc_score is the number of rows where they agree over the number of
\* rows: exactly 1.0 when all agree, exactly 0.0 when none does.
C5_ScoreIsFractionAgreeing ==
    BinaryLabelled =>
        /\ call.out.kind = "Ok"
        /\ call.out.val = Div(FromInt(Cardinality(Agreeing)), FromInt(Len(call.args[1])))
        /\ call.args[1] = call.args[2] => call.out.val = One
        /\ Agreeing = {} => call.out.val = Zero

\* a score of one row agreeing out of two
C5_HalfAgreeing ==
    /\ BinaryLabelled
    /\ Len(call.args[1]) = 2 /\ Cardinality(Agreeing) = 1
    /\ call.out.val = Half

\* the labels the latest call has validated
Validated ==
    IF call.op = "from_matrix" THEN Range(Column(call.args[1], 1))
    ELSE IF call.op = "report" THEN Range(objective[1].y)
    ELSE {}

\* C6: wherever labels are validated (the Objective built from a matrix,
\* and auc_score, which report calls on the Objective's labels) a label
\* below 0 is rejected by an error returned to the caller, and labels of
\* 0, 1 or above 1 are accepted.
C6_LabelValidation ==
    (call.op \in {"from_matrix", "report"}) =>
        IF \E l \in Validated : Lt(l, Zero)
        THEN call.out.kind = "Err"
        ELSE call.out.kind = "Ok"

\* the Objective from a matrix with the labels 0 and 2 has panicked
C6_LabelAboveOnePanics ==
    /\ call.op = "from_matrix"
    /\ Validated = {Zero, Two}
    /\ call.out.kind = "Panic"

\* a csv file with a record of another field count than its first record
Ragged(file) == \E i \in 1..Len(file) : Len(file[i]) # Len(file[1])

\* C7: the loader's row count is the parsed scalar count over the feature
\* count (header fields + 1) and the load fails, returning no truncated row
\* count, whenever the records do not make that division exact; from_vec
\* and from_vecs accept no data whose length is not a multiple of rows.
C7_NoTruncatedShape ==
    /\ call.op = "from_csv" =>
        /\ Ragged(call.args[1]) => call.out.kind = "Err"
        /\ call.out.kind = "Ok" =>
            call.out.val[2] * (Len(Headers(call.args[1])) + 1) = Len(call.out.val[1])
    /\ (call.op \in {"from_vec", "from_vecs"} /\ call.args[Len(call.args)] > 0) =>
        (Len(call.args[1]) % call.args[Len(call.args)] # 0 => call.out.kind # "Ok")

\* from_vec given three values for two rows
C7_ThreeValuesTwoRows ==
    /\ call.op = "from_vec"
    /\ Len(call.args[1]) = 3 /\ call.args[2] = 2
    /\ call.out.kind = "Panic"

\* a label vector whose entries are all 0 or all 1
ConstantLabel(y) == Len(y) > 0 /\ (Range(y) = {Zero} \/ Range(y) = {One})

\* C8: for a dataset whose rows all have the same label, building the
\* Objective does not fail, neither does logit::run, and the run ends
\* after at most max_iters iterations.
C8_ConstantLabelRuns ==
    /\ (call.op = "from_matrix" /\ ConstantLabel(Column(call.args[1], 1)))
            => call.out.kind = "Ok"
    /\ (call.op = "run" /\ ConstantLabel(objective[1].y))
            => (call.out.kind \in {"Running", "Ok"} /\ exec.iter <= exec.max_iters)

\* the Objective from a matrix whose labels are all 1 has panicked
C8_AllOnesPanics ==
    /\ call.op = "from_matrix"
    /\ Range(Column(call.args[1], 1)) = {One}
    /\ call.args[1].ncols > 1
    /\ call.out.kind = "Panic"

C10_FindingsSplit ==
    Returned("run") =>
        /\ call.out.kind # "Panic"
        /\ call.out.kind = "Ok" =>
            /\ Len(call.out.val.all_betas) = feature_count(objective[1])
            /\ call.out.val.coefficients
                  = SubSeq(call.out.val.all_betas, 1, feature_count(objective[1]) - 1)
            /\ call.out.val.intercept = call.out.val.all_betas[feature_count(objective[1])]

\* run has panicked on an Objective of zero feature columns
C10_ZeroColumnsPanics ==
    /\ Returned("run")
    /\ feature_count(objective[1]) = 0
    /\ call.out.kind = "Panic"
====
